---- MODULE Spec2Model ----
(***************************************************************************)
(* Fairfax FTHB listings notifier: the SQLite listing store (store.py) and *)
(* the run orchestrator (main.py run_once) over the scraper (scraper.py)   *)
(* and the mailer (emailer.py).                                            *)
(*                                                                         *)
(* Text values are sequences of tokens; the token " " is whitespace.       *)
(* Timestamps are naturals from 1; NULL (0) is SQL NULL.                   *)
(***************************************************************************)
EXTENDS Integers, Sequences, FiniteSets, TLC

\* ------------------------------------------------------------------ bounds
MaxClock == 2
MaxBlocks == 2
MaxIds == 2
MaxText == 4
MaxLinks == 2
MaxTries == 5

NULL == 0

\* Python's None where text is expected: no value.
None == <<>>

Range(s) == {s[i] : i \in DOMAIN s}

SeqsUpTo(S, n) == UNION {[1..k -> S] : k \in 0..n}

\* The sequences of at most n elements of S, none of them twice.
ListsUpTo(S, n) ==
    {s \in SeqsUpTo(S, n) : \A i, j \in DOMAIN s : s[i] = s[j] => i = j}

\* ------------------------------------------------------- text and identity
WS == " "

RECURSIVE lstrip(_)
lstrip(s) == IF s # <<>> /\ Head(s) = WS THEN lstrip(Tail(s)) ELSE s

RECURSIVE rstrip(_)
rstrip(s) ==
    IF s # <<>> /\ s[Len(s)] = WS THEN rstrip(SubSeq(s, 1, Len(s) - 1)) ELSE s

\* str.strip()
strip(s) == rstrip(lstrip(s))

\* hashlib.sha256(combined).hexdigest()[:32]: a fingerprint of the combined
\* text, modelled collision-free as the tagged text itself.
sha256(combined) == <<"sha256:">> \o combined

\* Mutant: the link is used only together with the title.
generate_listing_id_titled(listing) ==
    LET url == strip(listing.url)
    IN  IF url # <<>>
        THEN url \o <<"#">> \o strip(listing.title)
        ELSE sha256(strip(listing.title) \o <<"|">> \o strip(listing.price)
                        \o <<"|">> \o strip(listing.location))

\* Mutant: the fallback hashes title and location only.
generate_listing_id_noprice(listing) ==
    LET url == strip(listing.url)
    IN  IF url # <<>>
        THEN url
        ELSE sha256(strip(listing.title) \o <<"|">> \o strip(listing.location))

\* generate_listing_id: the trimmed link when there is one, else the
\* fingerprint of "title|price|location", each trimmed.
generate_listing_id(listing) ==
    LET url == strip(listing.url)
    IN  IF url # <<>>
        THEN url
        ELSE sha256(strip(listing.title) \o <<"|">> \o strip(listing.price)
                        \o <<"|">> \o strip(listing.location))

\* ------------------------------------------------------------ the scraper
\* parse_listing, status: the block text lower-cased is searched for the
\* phrases in priority order.  kw is the set of phrases the text contains.
ParseStatus(kw) ==
    IF "drawing closed" \in kw THEN <<"DRAWING CLOSED">>
    ELSE IF "immediately available" \in kw THEN <<"IMMEDIATELY AVAILABLE">>
    ELSE IF "available" \in kw THEN <<"AVAILABLE">>
    ELSE <<>>

NoListing == [title |-> <<>>]

\* The words of a block's text that the location pattern can tell apart:
\* capitalized words ([A-Z][a-z]+), state codes ([A-Z]{2}), zip codes
\* (\d{5}); every other word (a label, a comma, a lower-case word) fits
\* none of the three.
CapWords == {"Alexandria", "Fairfax"}
StateCodes == {"VA"}
ZipCodes == {"22309", "22030"}

\* str.lower(), word by word.
lower_word(w) ==
    CASE w = "Alexandria" -> "alexandria"
      [] w = "Fairfax" -> "fairfax"
      [] w = "VA" -> "va"
      [] w = "Location:" -> "location:"
      [] OTHER -> w

lower(text) == [i \in DOMAIN text |-> lower_word(text[i])]

\* Where in text a match of
\* ([A-Z][a-z]+(?:\s+[A-Z][a-z]+)*),\s*([A-Z]{2})\s+(\d{5}) that begins at
\* word i ends: a run of capitalized words from i, a comma, a state code
\* and a zip code.
LocationEnds(text, i) ==
    {k + 3 : k \in {k \in i..Len(text) - 3 :
                      /\ \A m \in i..k : text[m] \in CapWords
                      /\ text[k + 1] = ","
                      /\ text[k + 2] \in StateCodes
                      /\ text[k + 3] \in ZipCodes}}

\* re.search(pattern, text).group(0), or "" when nothing matches: the
\* leftmost match.
search_location(text) ==
    LET starts == {i \in DOMAIN text : LocationEnds(text, i) # {}}
    IN  IF starts = {}
        THEN <<>>
        ELSE LET i == CHOOSE i \in starts : \A j \in starts : i <= j
                 e == CHOOSE e \in LocationEnds(text, i) : TRUE
             IN  SubSeq(text, i, e)

\* The phrases a link's lower-cased text holds, of those find_listing_url
\* looks for.
LinkPhrases(link_text) ==
    CASE link_text = "full listing" -> {"full listing", "listing"}
      [] link_text = "view listing" -> {"view listing", "listing"}
      [] link_text = "listing" -> {"listing"}
      [] OTHER -> {}

\* href.startswith("#")
IsFragment(href) == href \in {"#top"}

BaseUrl == "https://www.fairfaxcounty.gov"

\* urljoin(base_url, href): the href resolved against the page's address.
urljoin(base_url, href) == <<base_url, href>>

\* find_listing_url: links are the block's <a href=...> elements in
\* document order, each with its lower-cased text and its href.  The first
\* link whose text holds one of the phrases and whose href is not empty is
\* taken; without one, links[0] if its href is not empty and no fragment;
\* else None.
find_listing_url(links, base_url) ==
    LET matching == {i \in DOMAIN links :
                        /\ LinkPhrases(links[i].text) \cap
                               {"full listing", "view listing", "listing"} # {}
                        /\ links[i].href # ""}
    IN  IF matching # {}
        THEN urljoin(base_url,
                     links[CHOOSE i \in matching : \A j \in matching : i <= j].href)
        ELSE IF /\ links # <<>>
                /\ links[1].href # ""
                /\ ~IsFragment(links[1].href)
        THEN urljoin(base_url, links[1].href)
        ELSE None

\* parse_listing: a block is what the parser reads from one listing block:
\* its title element, the phrases and the price its lower-cased text
\* holds, the words of its text, the derived details and its links.
\* The location pattern is searched in block_text, the lower-cased text.
parse_listing(block) ==
    IF block.title = <<>>
    THEN NoListing
    ELSE [title |-> block.title,
          status |-> ParseStatus(block.kw),
          price |-> block.price,
          location |-> search_location(lower(block.text)),
          details_text |-> block.details,
          url |-> find_listing_url(block.links, BaseUrl)]

CLOSED == <<"DRAWING CLOSED">>

\* The blocks pages are built from: a listing, the same listing (same link)
\* with its price and status changed, a listing without a link, and a block
\* no title can be derived from.
Blocks ==
    { [title |-> <<"4420 C Groombridge Way">>, kw |-> {"available"},
       price |-> <<"$106,516">>,
       text |-> <<"Location:", "Alexandria", ",", "VA", "22309">>,
       details |-> <<"Type: Condominium">>,
       links |-> <<[text |-> "full listing", href |-> "/listing/123"]>>],
      [title |-> <<"4420 C Groombridge Way">>,
       kw |-> {"drawing closed", "available"},
       price |-> <<"$99,000">>,
       text |-> <<"Location:", "Alexandria", ",", "VA", "22309">>,
       details |-> <<"Type: Condominium">>,
       links |-> <<[text |-> "full listing", href |-> "/listing/123"]>>],
      [title |-> <<"123 Main Street">>,
       kw |-> {"immediately available", "available"},
       price |-> <<"$150,000">>,
       text |-> <<"Fairfax", ",", "VA", "22030">>,
       details |-> <<>>, links |-> <<>>],
      [title |-> <<>>, kw |-> {}, price |-> <<>>, text |-> <<>>,
       details |-> <<>>, links |-> <<>>] }

TitledBlocks == {b \in Blocks : b.title # <<>>}

\* The listing dictionaries the store is called with: what the parser
\* yields, and hand-made dictionaries as in test_generate_listing_id (a link
\* with surrounding whitespace, a link-less listing that is closed).
Listings ==
    {parse_listing(b) : b \in TitledBlocks} \cup
    { [title |-> <<"Test Listing">>, status |-> <<"AVAILABLE">>,
       price |-> <<"$100,000">>, location |-> <<"City, ST 12345">>,
       details_text |-> <<>>,
       url |-> <<WS>> \o urljoin(BaseUrl, "/listing/123") \o <<WS>>],
      [title |-> <<"123 Main Street">>, status |-> <<"DRAWING CLOSED">>,
       price |-> <<"$150,000">>, location |-> <<>>,
       details_text |-> <<>>, url |-> <<>>] }

\* Ids the store can hold, and one that is never stored.
GhostId == urljoin(BaseUrl, "/listing/999")
Ids == {generate_listing_id(l) : l \in Listings}

\* ---------------------------------------------------------------- the store
\* A row of the listings table.
NewRow(id, listing, now) ==
    [id |-> id,
     title |-> listing.title,
     status |-> listing.status,
     price |-> listing.price,
     location |-> listing.location,
     url |-> listing.url,
     details_text |-> listing.details_text,
     first_seen_at |-> now,
     last_seen_at |-> now,
     emailed_at |-> NULL]

UpdatedRow(r, listing, now) ==
    [r EXCEPT !.title = listing.title,
              !.status = listing.status,
              !.price = listing.price,
              !.location = listing.location,
              !.url = listing.url,
              !.details_text = listing.details_text,
              !.last_seen_at = now]

\* Mutant: the existing row is replaced by a fresh one (INSERT OR REPLACE).
upsert_listing_replace(tbl, listing, now) ==
    LET listing_id == generate_listing_id(listing)
    IN  {r \in tbl : r.id # listing_id} \cup {NewRow(listing_id, listing, now)}

\* Mutant: the update also writes emailed_at = NULL when the content changed.
upsert_listing_renotify(tbl, listing, now) ==
    LET listing_id == generate_listing_id(listing)
        exists == \E r \in tbl : r.id = listing_id
    IN  IF exists
        THEN {IF r.id = listing_id
              THEN [UpdatedRow(r, listing, now) EXCEPT
                       !.emailed_at = IF r.status = listing.status
                                      THEN r.emailed_at ELSE NULL]
              ELSE r : r \in tbl}
        ELSE tbl \cup {NewRow(listing_id, listing, now)}

\* Mutant: the update refreshes first_seen_at along with last_seen_at.
upsert_listing_firstseen(tbl, listing, now) ==
    LET listing_id == generate_listing_id(listing)
        exists == \E r \in tbl : r.id = listing_id
    IN  IF exists
        THEN {IF r.id = listing_id
              THEN [UpdatedRow(r, listing, now) EXCEPT !.first_seen_at = now]
              ELSE r : r \in tbl}
        ELSE tbl \cup {NewRow(listing_id, listing, now)}

\* Mutant: the update writes the current time to first_seen_at, not to
\* last_seen_at.
upsert_listing_swapped(tbl, listing, now) ==
    LET listing_id == generate_listing_id(listing)
        exists == \E r \in tbl : r.id = listing_id
    IN  IF exists
        THEN {IF r.id = listing_id
              THEN [UpdatedRow(r, listing, r.last_seen_at) EXCEPT
                       !.first_seen_at = now]
              ELSE r : r \in tbl}
        ELSE tbl \cup {NewRow(listing_id, listing, now)}

\* Mutant: the row is inserted without looking for an existing one, in a
\* table without the primary key.
upsert_listing_insert(tbl, listing, now) ==
    tbl \cup {NewRow(generate_listing_id(listing), listing, now)}

\* upsert_listing: SELECT id, then UPDATE ... WHERE id = ? or INSERT.
upsert_listing(tbl, listing, now) ==
    LET listing_id == generate_listing_id(listing)
        exists == \E r \in tbl : r.id = listing_id
    IN  IF exists
        THEN {IF r.id = listing_id THEN UpdatedRow(r, listing, now) ELSE r :
                 r \in tbl}
        ELSE tbl \cup {NewRow(listing_id, listing, now)}

\* Mutant: the exclude_closed branch also drops IMMEDIATELY AVAILABLE rows.
Unemailed_status(tbl, exclude_closed) ==
    IF exclude_closed
    THEN {r \in tbl : r.emailed_at = NULL /\ r.status # <<"DRAWING CLOSED">>
                          /\ r.status # <<"IMMEDIATELY AVAILABLE">>}
    ELSE {r \in tbl : r.emailed_at = NULL}

\* The WHERE clause of get_unemailed_listings.
Unemailed(tbl, exclude_closed) ==
    IF exclude_closed
    THEN {r \in tbl : r.emailed_at = NULL /\ r.status # CLOSED}
    ELSE {r \in tbl : r.emailed_at = NULL}

\* Mutant: ORDER BY last_seen_at ASC.
RECURSIVE OrderByLastSeen(_)
OrderByLastSeen(S) ==
    IF S = {}
    THEN {<<>>}
    ELSE UNION {{<<r>> \o t : t \in OrderByLastSeen(S \ {r})} :
                   r \in {q \in S : \A p \in S : q.last_seen_at <= p.last_seen_at}}

\* ORDER BY first_seen_at ASC: every order of the rows that is ascending in
\* first_seen_at (rows with equal first_seen_at come in either order).
RECURSIVE OrderByFirstSeen(_)
OrderByFirstSeen(S) ==
    IF S = {}
    THEN {<<>>}
    ELSE UNION {{<<r>> \o t : t \in OrderByFirstSeen(S \ {r})} :
                   r \in {q \in S : \A p \in S : q.first_seen_at <= p.first_seen_at}}

get_unemailed_listings(tbl, exclude_closed) ==
    OrderByFirstSeen(Unemailed(tbl, exclude_closed))

\* Mutant: only the first id of the list is bound into the UPDATE.
mark_as_emailed_first(tbl, listing_ids, now) ==
    IF listing_ids = <<>>
    THEN tbl
    ELSE {IF r.id = listing_ids[1] THEN [r EXCEPT !.emailed_at = now] ELSE r :
             r \in tbl}

\* Mutant: the UPDATE has no WHERE clause.
mark_as_emailed_every(tbl, listing_ids, now) ==
    IF listing_ids = <<>>
    THEN tbl
    ELSE {[r EXCEPT !.emailed_at = now] : r \in tbl}

\* mark_as_emailed: UPDATE listings SET emailed_at = now WHERE id IN (ids).
mark_as_emailed(tbl, listing_ids, now) ==
    IF listing_ids = <<>>
    THEN tbl
    ELSE {IF r.id \in Range(listing_ids) THEN [r EXCEPT !.emailed_at = now] ELSE r :
             r \in tbl}

\* cursor.rowcount of the UPDATE in mark_as_emailed (logged, not returned).
rows_updated(tbl, listing_ids) ==
    Cardinality({r \in tbl : r.id \in Range(listing_ids)})

get_stats(tbl) ==
    [total |-> Cardinality(tbl),
     emailed |-> Cardinality({r \in tbl : r.emailed_at # NULL}),
     unemailed |-> Cardinality({r \in tbl : r.emailed_at = NULL})]

\* ------------------------------------------------------------ the scraper
max_retries == 3

\* fetch_page: outcomes[i] says whether request i succeeds; the page text is
\* returned by the first attempt that succeeds, ScraperError is raised when
\* attempt max_retries fails.
fetch_page(outcomes) == \E i \in 1..max_retries : outcomes[i]

\* A page: which heading level carries "Homes for Sale" ("none": no
\* heading does), the listing-like h2 blocks after it (before any stop word)
\* and the div/article/li blocks the fallback pass would try (it runs only
\* when there are no h2 blocks).  A page has at most MaxBlocks blocks, each
\* once.
Pages ==
    {p \in [section : {"h2", "h3", "none"},
            h2blocks : ListsUpTo(TitledBlocks, MaxBlocks),
            divblocks : ListsUpTo(Blocks, MaxBlocks)] :
        p.h2blocks # <<>> => p.divblocks = <<>>}

\* The blocks of a sequence that parse to a listing with a title.
RECURSIVE ParseAll(_)
ParseAll(blocks) ==
    IF blocks = <<>>
    THEN <<>>
    ELSE LET listing == parse_listing(Head(blocks))
         IN  IF listing.title # <<>>
             THEN <<listing>> \o ParseAll(Tail(blocks))
             ELSE ParseAll(Tail(blocks))

ScraperError == [error |-> "ScraperError", listings |-> <<>>]

\* Mutant: a page without listings is returned as an empty list.
scrape_listings_empty(outcomes, page) ==
    IF ~fetch_page(outcomes)
    THEN ScraperError
    ELSE IF page.section # "h2"
    THEN ScraperError
    ELSE LET primary == ParseAll(page.h2blocks)
         IN  [error |-> "",
              listings |-> IF primary # <<>> THEN primary
                           ELSE ParseAll(page.divblocks)]

\* scrape_listings: fetch, find the "Homes for Sale" h2, parse the h2
\* blocks, fall back to the div blocks when that yields nothing, and raise
\* when there are still no listings.
scrape_listings(outcomes, page) ==
    IF ~fetch_page(outcomes)
    THEN ScraperError
    ELSE IF page.section # "h2"
    THEN ScraperError
    ELSE LET primary == ParseAll(page.h2blocks)
             found == IF primary # <<>> THEN primary ELSE ParseAll(page.divblocks)
         IN  IF found = <<>>
             THEN ScraperError
             ELSE [error |-> "", listings |-> found]

\* What a run can meet when it scrapes, over every run of request outcomes
\* and every page: whether a request succeeded, the heading that carries
\* "Homes for Sale", whether any block of the page parses to a listing, and
\* what scrape_listings does with it.
Scrapes ==
    {[fetched |-> \E i \in 1..max_retries : outcomes[i],
      section |-> page.section,
      records |-> \E b \in Range(page.h2blocks) \cup Range(page.divblocks) :
                     b.title # <<>>,
      scrape |-> scrape_listings(outcomes, page)] :
        outcomes \in [1..max_retries -> BOOLEAN], page \in Pages}

\* ------------------------------------------------------------------- state
VARIABLES
    rows,       \* the listings table: a set of rows
    clock,      \* the latest datetime.utcnow() any operation has read
    last,       \* the call made last, with its arguments and what it returned
    pc,         \* where run_once stands: "idle", "upsert", "notify", "commit"
    args,       \* exclude_closed and dry_run of the current (or last) run
    scraped,    \* the listings the current (or last) run scraped
    done,       \* how many of them the run has upserted
    unemailed,  \* the list get_unemailed_listings returned to the run
    result,     \* how the last run ended
    sent,       \* ids of every payload send_email delivered
    run,        \* what the current (or last) run has done so far
    prev        \* the run before it

vars == <<rows, clock, last, pc, args, scraped, done, unemailed, result,
          sent, run, prev>>

storeVars == <<rows, clock, last>>
runVars == <<pc, args, scraped, done, unemailed, result, sent, run, prev>>

\* datetime.utcnow(): not before the latest time read so far.
Nows == {t \in {clock, clock + 1} : t <= MaxClock}

IdsOf(payload) == {payload[i].id : i \in DOMAIN payload}

\* [listing["id"] for listing in unemailed]
IdList(payload) == [i \in DOMAIN payload |-> payload[i].id]

NoArgs == [exclude_closed |-> FALSE, dry_run |-> FALSE]
NoCall == [op |-> "none", listing |-> NoListing, ids |-> <<>>,
           exclude_closed |-> FALSE, now |-> NULL, before |-> {}, ret |-> <<>>]
\* mutated: the run has changed the table; marked: the ids whose emailed_at
\* it has changed; sends: its calls of send_email; notifiedBefore: no row
\* was unemailed when it began; fetched, section, records: what it met when
\* it scraped (see Scrapes).
NoRun == [mutated |-> FALSE, marked |-> {}, sends |-> 0, notifiedBefore |-> TRUE,
          fetched |-> FALSE, section |-> "", records |-> FALSE]
\* The run before this one, kept when this run scraped the same listings as
\* it did: "sent" when it returned after send_email delivered and had found
\* no unemailed row when it began, "dry" when it returned from a dry run,
\* with its exclude_closed and the ids of its payload; "other" otherwise.
NoPrev == [kind |-> "other", exclude_closed |-> FALSE, payload |-> {}]

\* A new store and no run yet.
Fresh ==
    /\ rows = {}
    /\ clock = 1
    /\ pc = "idle"
    /\ args = NoArgs
    /\ scraped = <<>>
    /\ done = 0
    /\ unemailed = <<>>
    /\ result = "none"
    /\ sent = {}
    /\ run = NoRun
    /\ prev = NoPrev

Init == Fresh /\ last = NoCall

\* -------------------------------------------------- the store's interface
\* Each operation of ListingStore called on its own, with any arguments.
UpsertListing ==
    \E listing \in Listings, now \in Nows :
        /\ rows' = upsert_listing(rows, listing, now)
        /\ clock' = now
        /\ last' = [NoCall EXCEPT !.op = "upsert_listing", !.listing = listing,
                                  !.now = now, !.before = rows,
                                  !.ret = generate_listing_id(listing)]
        /\ UNCHANGED runVars

GetUnemailedListings ==
    \E exclude_closed \in BOOLEAN :
        \E ret \in get_unemailed_listings(rows, exclude_closed) :
            /\ last' = [NoCall EXCEPT !.op = "get_unemailed_listings",
                                      !.exclude_closed = exclude_closed,
                                      !.before = rows, !.ret = ret]
            /\ UNCHANGED <<rows, clock>>
            /\ UNCHANGED runVars

MarkAsEmailed ==
    \E listing_ids \in ListsUpTo(Ids \cup {GhostId}, MaxIds), now \in Nows :
        /\ rows' = mark_as_emailed(rows, listing_ids, now)
        /\ clock' = IF listing_ids = <<>> THEN clock ELSE now
        /\ last' = [NoCall EXCEPT !.op = "mark_as_emailed", !.ids = listing_ids,
                                  !.now = now, !.before = rows, !.ret = None]
        /\ UNCHANGED runVars

GetStats ==
    /\ last' = [NoCall EXCEPT !.op = "get_stats", !.before = rows,
                              !.ret = get_stats(rows)]
    /\ UNCHANGED <<rows, clock>>
    /\ UNCHANGED runVars

StoreNext == UpsertListing \/ GetUnemailedListings \/ MarkAsEmailed \/ GetStats

StoreSpec == Init /\ [][StoreNext]_vars

\* ------------------------------------------------------------------ run_once
\* What a step of the run has done to the table, added to the run's record.
Record(r, tbl, tbl2) ==
    [r EXCEPT !.mutated = r.mutated \/ tbl2 # tbl,
              !.marked = r.marked \cup
                  {x.id : x \in {y \in tbl2 :
                      \/ \E z \in tbl : z.id = y.id /\ z.emailed_at # y.emailed_at
                      \/ y.emailed_at # NULL /\ \A z \in tbl : z.id # y.id}}]

Finished(listing_list) ==
    IF listing_list # scraped \/ result # "ok"
    THEN NoPrev
    ELSE IF args.dry_run
    THEN [kind |-> "dry", exclude_closed |-> args.exclude_closed,
          payload |-> IdsOf(unemailed)]
    ELSE IF run.sends = 1 /\ run.notifiedBefore
    THEN [kind |-> "sent", exclude_closed |-> args.exclude_closed,
          payload |-> IdsOf(unemailed)]
    ELSE NoPrev

Begun == [NoRun EXCEPT !.notifiedBefore = \A r \in rows : r.emailed_at # NULL]

\* run_once is entered and scrape_listings raises: the run aborts.
ScrapeFails ==
    /\ pc = "idle"
    /\ \E met \in Scrapes :
        /\ met.scrape.error # ""
        /\ run' = [Begun EXCEPT !.fetched = met.fetched,
                                !.section = IF met.fetched THEN met.section ELSE "",
                                !.records = met.fetched /\ met.records]
    /\ \E exclude_closed \in BOOLEAN, dry_run \in BOOLEAN :
           args' = [exclude_closed |-> exclude_closed, dry_run |-> dry_run]
    /\ prev' = NoPrev
    /\ result' = "ScraperError"
    /\ scraped' = <<>>
    /\ done' = 0
    /\ unemailed' = <<>>
    /\ UNCHANGED <<pc, sent>>
    /\ UNCHANGED storeVars

\* run_once is entered and scrape_listings returns the listings.
Scrape ==
    /\ pc = "idle"
    /\ \E met \in Scrapes :
        /\ met.scrape.error = ""
        /\ scraped' = met.scrape.listings
        /\ run' = [Begun EXCEPT !.fetched = met.fetched, !.section = met.section,
                                !.records = met.records]
    /\ \E exclude_closed \in BOOLEAN, dry_run \in BOOLEAN :
           args' = [exclude_closed |-> exclude_closed, dry_run |-> dry_run]
    /\ prev' = Finished(scraped')
    /\ result' = "running"
    /\ done' = 0
    /\ unemailed' = <<>>
    /\ pc' = "upsert"
    /\ UNCHANGED sent
    /\ UNCHANGED storeVars

\* for listing in listings: store.upsert_listing(listing)
Upsert ==
    /\ pc = "upsert"
    /\ done < Len(scraped)
    /\ \E now \in Nows :
        /\ rows' = upsert_listing(rows, scraped[done + 1], now)
        /\ clock' = now
    /\ done' = done + 1
    /\ run' = Record(run, rows, rows')
    /\ UNCHANGED <<last, pc, args, scraped, unemailed, result, sent, prev>>

\* unemailed = store.get_unemailed_listings(exclude_closed=exclude_closed)
Query ==
    /\ pc = "upsert"
    /\ done = Len(scraped)
    /\ unemailed' \in get_unemailed_listings(rows, args.exclude_closed)
    /\ pc' = "notify"
    /\ UNCHANGED <<args, scraped, done, result, sent, run, prev>>
    /\ UNCHANGED storeVars

\* Mutant: the dry run marks what it printed.
DryRunMarks ==
    /\ pc = "notify"
    /\ args.dry_run
    /\ \E now \in Nows :
        /\ rows' = mark_as_emailed(rows, IdList(unemailed), now)
        /\ clock' = IF unemailed = <<>> THEN clock ELSE now
    /\ run' = Record(run, rows, rows')
    /\ pc' = "idle"
    /\ result' = "ok"
    /\ UNCHANGED <<last, args, scraped, done, unemailed, sent, prev>>

\* dry_run: the body is printed, nothing is sent or marked; the run returns.
DryRun ==
    /\ pc = "notify"
    /\ args.dry_run
    /\ pc' = "idle"
    /\ result' = "ok"
    /\ UNCHANGED <<args, scraped, done, unemailed, sent, run, prev>>
    /\ UNCHANGED storeVars

\* send_email returns; with nothing to mark the run returns.
SendEmail ==
    /\ pc = "notify"
    /\ ~args.dry_run
    /\ sent' = sent \cup IdsOf(unemailed)
    /\ run' = [run EXCEPT !.sends = run.sends + 1]
    /\ IF unemailed # <<>>
       THEN pc' = "commit" /\ result' = result
       ELSE pc' = "idle" /\ result' = "ok"
    /\ UNCHANGED <<args, scraped, done, unemailed, prev>>
    /\ UNCHANGED storeVars

\* send_email raises EmailError: run_once logs and re-raises.
SendEmailFails ==
    /\ pc = "notify"
    /\ ~args.dry_run
    /\ run' = [run EXCEPT !.sends = run.sends + 1]
    /\ pc' = "idle"
    /\ result' = "EmailError"
    /\ UNCHANGED <<args, scraped, done, unemailed, sent, prev>>
    /\ UNCHANGED storeVars

\* store.mark_as_emailed(listing_ids); the run returns its metrics.
Commit ==
    /\ pc = "commit"
    /\ \E now \in Nows :
        /\ rows' = mark_as_emailed(rows, IdList(unemailed), now)
        /\ clock' = now
    /\ run' = Record(run, rows, rows')
    /\ pc' = "idle"
    /\ result' = "ok"
    /\ UNCHANGED <<last, args, scraped, done, unemailed, sent, prev>>

RunNext ==
    ScrapeFails \/ Scrape \/ Upsert \/ Query \/ DryRun \/ SendEmail
        \/ SendEmailFails \/ Commit

RunSpec == Init /\ [][RunNext]_vars

\* The process is killed in the middle of a run: what the run held in
\* memory is lost, the committed transactions and the delivered mail stay.
Crash ==
    /\ pc # "idle"
    /\ pc' = "idle"
    /\ result' = "crashed"
    /\ args' = NoArgs
    /\ scraped' = <<>>
    /\ done' = 0
    /\ unemailed' = <<>>
    /\ run' = NoRun
    /\ prev' = NoPrev
    /\ UNCHANGED sent
    /\ UNCHANGED storeVars

CrashNext == RunNext \/ Crash

CrashSpec == Init /\ [][CrashNext]_vars

\* ------------------------------------------------------ generate_listing_id
\* The listing dictionaries generate_listing_id is called with: every
\* combination of titles, prices, locations and links as in
\* test_generate_listing_id, among them values with surrounding whitespace,
\* an absent location, an empty and a whitespace-only link.
IdListings ==
    [title : {<<"Test Listing">>, <<WS, "Test Listing">>, <<"Different Title">>},
     status : {<<>>},
     price : {<<"$100,000">>, <<"$100,000", WS>>, <<"$200,000">>},
     location : {<<"City, ST 12345">>, <<"Different City, ST 12345">>, <<>>},
     details_text : {<<>>},
     url : {<<>>, <<WS>>, <<"https://example.com/listing/123">>,
            <<WS, "https://example.com/listing/123", WS>>,
            <<"https://example.com/listing/456">>}]

IdInit ==
    /\ Fresh
    /\ \E a \in IdListings, b \in IdListings :
           last = [op |-> "none", listings |-> <<a, b>>, ret |-> <<>>]

\* id1 = generate_listing_id(listing1); id2 = generate_listing_id(listing2)
GenerateListingId ==
    /\ last.op = "none"
    /\ last' = [last EXCEPT !.op = "generate_listing_id",
                            !.ret = <<generate_listing_id(last.listings[1]),
                                      generate_listing_id(last.listings[2])>>]
    /\ UNCHANGED <<rows, clock>>
    /\ UNCHANGED runVars

IdNext == GenerateListingId

IdSpec == IdInit /\ [][IdNext]_vars

\* ------------------------------------------------------------ parse_listing
\* The texts of a block, as far as the location pattern reads them: at most
\* MaxText words, each a label, a capitalized word, a comma, a state code or
\* a zip code.
Texts == SeqsUpTo({"Location:", "Alexandria", "Fairfax", ",", "VA", "22309"},
                  MaxText)

\* The links of a block: at most MaxLinks <a href=...> elements, each with
\* one of four texts and an empty, fragment-only or relative href.
Links == [text : {"full listing", "view listing", "listing", "more info"},
          href : {"", "#top", "/listing/123", "/listing/456"}]

\* The listing blocks parse_listing is called with: the blocks of the
\* pages, and a titled block with any text and no link, or with any links
\* and no text.
ParseBlocks ==
    TitledBlocks
    \cup
    {[title |-> <<"4420 C Groombridge Way">>, kw |-> {"available"},
      price |-> <<"$106,516">>, text |-> text, details |-> <<>>,
      links |-> <<>>] : text \in Texts}
    \cup
    {[title |-> <<"4420 C Groombridge Way">>, kw |-> {"available"},
      price |-> <<"$106,516">>, text |-> <<>>, details |-> <<>>,
      links |-> links] : links \in SeqsUpTo(Links, MaxLinks)}

ParseInit ==
    /\ Fresh
    /\ \E block \in ParseBlocks :
           last = [op |-> "none", block |-> block, ret |-> NoListing]

\* listing = parse_listing(block, base_url)
ParseListing ==
    /\ last.op = "none"
    /\ last' = [last EXCEPT !.op = "parse_listing",
                            !.ret = parse_listing(last.block)]
    /\ UNCHANGED <<rows, clock>>
    /\ UNCHANGED runVars

ParseNext == ParseListing

ParseSpec == ParseInit /\ [][ParseNext]_vars

\* --------------------------------------------------------------- fetch_page
\* Mutant: the wait doubles once more.
wait_time_doubled(attempt) == 2 ^ (attempt + 1)

\* wait_time = 2 ** attempt
wait_time(attempt) == 2 ^ attempt

\* fetch_page(url, max_retries=n) is entered, for any n from 1 to MaxTries
\* (3 by default) and any outcomes of the requests it may make:
\* outcomes[i] says whether request i is answered without a
\* RequestException.  attempt is the loop variable, requests counts the
\* requests made, slept lists the time.sleep() calls, ret is "" while the
\* function runs.
FetchInit ==
    /\ Fresh
    /\ \E n \in 1..MaxTries :
           \E outcomes \in [1..n -> BOOLEAN] :
               last = [op |-> "fetch_page", max_retries |-> n,
                       outcomes |-> outcomes, attempt |-> 0, requests |-> 0,
                       slept |-> <<>>, ret |-> ""]

\* The request of this attempt succeeds: return response.text.
RequestSucceeds ==
    /\ last.op = "fetch_page" /\ last.ret = ""
    /\ last.attempt < last.max_retries
    /\ last.outcomes[last.attempt + 1]
    /\ last' = [last EXCEPT !.requests = last.requests + 1, !.ret = "text"]
    /\ UNCHANGED <<rows, clock>>
    /\ UNCHANGED runVars

\* The request fails and attempt < max_retries - 1: sleep, next attempt.
RequestFailsRetry ==
    /\ last.op = "fetch_page" /\ last.ret = ""
    /\ last.attempt < last.max_retries
    /\ ~last.outcomes[last.attempt + 1]
    /\ last.attempt < last.max_retries - 1
    /\ last' = [last EXCEPT !.requests = last.requests + 1,
                            !.slept = Append(last.slept, wait_time(last.attempt)),
                            !.attempt = last.attempt + 1]
    /\ UNCHANGED <<rows, clock>>
    /\ UNCHANGED runVars

\* The request of the last attempt fails: raise ScraperError.
RequestFailsRaise ==
    /\ last.op = "fetch_page" /\ last.ret = ""
    /\ last.attempt < last.max_retries
    /\ ~last.outcomes[last.attempt + 1]
    /\ ~(last.attempt < last.max_retries - 1)
    /\ last' = [last EXCEPT !.requests = last.requests + 1,
                            !.ret = "ScraperError"]
    /\ UNCHANGED <<rows, clock>>
    /\ UNCHANGED runVars

FetchNext == RequestSucceeds \/ RequestFailsRetry \/ RequestFailsRaise

FetchSpec == FetchInit /\ [][FetchNext]_vars

\* ------------------------------------------------------------------ claims
\* The row of a table with the given id (the id is the primary key).
RowOf(tbl, id) == CHOOSE r \in tbl : r.id = id

HasRow(tbl, id) == \E r \in tbl : r.id = id

Filtered(r) == args.exclude_closed /\ r.status = CLOSED

\* C1: a payload that is about to be sent, or printed, holds no id that an
\* earlier payload delivered: no listing id is in two delivered payloads,
\* and a listing that was sent and marked is in no later payload.
C1_AtMostOnce ==
    pc = "notify" => IdsOf(unemailed) \cap sent = {}

\* A run has a non-empty payload to send after an earlier run delivered one.
C1_Witness ==
    /\ pc = "notify"
    /\ ~args.dry_run
    /\ unemailed # <<>>
    /\ sent # {}

\* C2: a store call (upsert_listing or mark_as_emailed, any arguments) on a
\* table where a row's emailed_at is set leaves that id's emailed_at set.
C2_NotifiedMonotonic ==
    last.op \in {"upsert_listing", "mark_as_emailed"} =>
        \A r \in last.before : r.emailed_at # NULL =>
            \A q \in rows : q.id = r.id => q.emailed_at # NULL

\* An emailed row has been upserted again with a changed status.
C2_Witness ==
    /\ last.op = "upsert_listing"
    /\ \E r \in last.before :
        /\ r.id = last.ret
        /\ r.emailed_at # NULL
        /\ r.status # last.listing.status

\* C3: mark_as_emailed leaves the emailed_at of an already emailed row as
\* it was.
C3_WrittenOnce ==
    last.op = "mark_as_emailed" =>
        \A r \in last.before : r.emailed_at # NULL =>
            \A q \in rows : q.id = r.id => q.emailed_at = r.emailed_at

\* C4: when a run that is not dry has ended, the ids whose emailed_at it
\* changed are exactly the ids of the payload if send_email returned, and
\* none if it raised EmailError; in that case the run ends with the error
\* and every scraped listing has its row.  At no moment has a run marked an
\* id outside its payload.
C4_CommitIsPayload ==
    /\ pc = "idle" /\ ~args.dry_run /\ result = "ok" =>
           run.sends = 1 /\ run.marked = IdsOf(unemailed)
    /\ result = "EmailError" =>
           /\ run.sends = 1
           /\ run.marked = {}
           /\ \A i \in DOMAIN scraped : HasRow(rows, generate_listing_id(scraped[i]))
           /\ \A r \in rows : r.id \in IdsOf(unemailed) => r.emailed_at = NULL
    /\ ~args.dry_run => run.marked \subseteq IdsOf(unemailed)

\* A run has sent its payload and marked it while a row left out of the
\* payload stays unemailed.
C4_Witness ==
    /\ pc = "idle"
    /\ ~args.dry_run
    /\ result = "ok"
    /\ run.marked # {}
    /\ \E r \in rows : r.emailed_at = NULL

\* C5: a run whose requests all fail, or whose page has no "Homes for Sale"
\* heading or yields no record in either pass, ends with ScraperError having
\* changed no row, set no emailed_at and called send_email not once.
C5_ScrapeFailureTouchesNothing ==
    (~run.fetched \/ run.section = "none" \/ ~run.records) /\ result # "none" =>
        /\ result = "ScraperError"
        /\ pc = "idle"
        /\ ~run.mutated
        /\ run.marked = {}
        /\ run.sends = 0

\* A run over a page with the heading and no record has aborted, the table
\* holding rows of earlier runs.
C5_Witness ==
    /\ result = "ScraperError"
    /\ run.fetched
    /\ run.section = "h2"
    /\ ~run.records
    /\ \E r \in rows : r.emailed_at = NULL

\* C6 as stated: in the run after a run that scraped the same listings,
\* sent them and marked them (the table fully emailed before it), the
\* query is empty whatever the two exclude_closed values.
C6_SecondRunEmpty_AnyFlags ==
    pc = "notify" /\ prev.kind = "sent" /\ prev.payload # {} => unemailed = <<>>

\* C6 amended: in the run after a run that scraped the same listings, sent
\* and returned, the query is empty unless the first run excluded closed
\* listings and the second does not.
C6_SecondRunEmpty ==
    pc = "notify" /\ prev.kind = "sent"
        /\ (prev.exclude_closed => args.exclude_closed) =>
            unemailed = <<>>

\* The second run queries, both runs excluding closed listings, while a
\* closed listing is unemailed and another listing was emailed by the first.
C6_Witness ==
    /\ pc = "notify"
    /\ prev.kind = "sent"
    /\ prev.exclude_closed /\ args.exclude_closed
    /\ \E r \in rows : r.emailed_at = NULL /\ r.status = CLOSED
    /\ \E r \in rows : r.emailed_at # NULL

\* C7: every row that is unemailed and not filtered by exclude_closed is in
\* the payload of a run that has come to notify; no row is emailed unless a
\* delivered payload held it (killing the run after send_email leaves the
\* rows unemailed, so they are sent again).
C7_NoLostNotification ==
    /\ pc \in {"notify", "commit"} =>
           \A r \in rows : r.emailed_at = NULL /\ ~Filtered(r) =>
               r.id \in IdsOf(unemailed)
    /\ \A r \in rows : r.emailed_at # NULL => r.id \in sent
    /\ \A id \in sent : HasRow(rows, id)

\* After a run was killed between send_email and mark_as_emailed, the next
\* run is about to send the same listing again.
C7_Witness ==
    /\ pc = "notify"
    /\ ~args.dry_run
    /\ \E r \in rows : r.id \in sent /\ r.emailed_at = NULL /\ r.id \in IdsOf(unemailed)

\* C8: upsert_listing of a listing whose id has a row leaves one row of
\* that id, with id, first_seen_at and emailed_at as before, the content
\* of the listing, and last_seen_at the time of the call; the other rows
\* are as before.
C8_UpsertExisting ==
    last.op = "upsert_listing" /\ HasRow(last.before, last.ret) =>
        LET old == RowOf(last.before, last.ret)
            new == RowOf(rows, last.ret)
        IN  /\ Cardinality({r \in rows : r.id = last.ret}) = 1
            /\ Cardinality(rows) = Cardinality(last.before)
            /\ new.first_seen_at = old.first_seen_at
            /\ new.emailed_at = old.emailed_at
            /\ new.last_seen_at = last.now
            /\ new.title = last.listing.title
            /\ new.status = last.listing.status
            /\ new.price = last.listing.price
            /\ new.location = last.listing.location
            /\ new.url = last.listing.url
            /\ new.details_text = last.listing.details_text
            /\ \A r \in last.before : r.id # last.ret => r \in rows

\* An emailed row first seen earlier is upserted with a new price and status.
C8_Witness ==
    /\ last.op = "upsert_listing"
    /\ \E old \in last.before :
        /\ old.id = last.ret
        /\ old.price # last.listing.price
        /\ old.status # last.listing.status
        /\ old.emailed_at # NULL
        /\ old.last_seen_at < last.now

\* C9: a dry run calls send_email not once and changes no emailed_at (it
\* does upsert and query); the run after it, over the same listings, is
\* returned every listing the dry run printed unless exclude_closed filters
\* it, and exactly those when exclude_closed is the same.
C9_DryRun ==
    /\ args.dry_run => run.sends = 0 /\ run.marked = {}
    /\ pc = "notify" /\ prev.kind = "dry" =>
           /\ \A id \in prev.payload :
                  id \in IdsOf(unemailed) \/ Filtered(RowOf(rows, id))
           /\ prev.exclude_closed = args.exclude_closed =>
                  IdsOf(unemailed) = prev.payload

\* The run after a dry run that inserted and printed listings queries.
C9_Witness ==
    /\ pc = "notify"
    /\ prev.kind = "dry"
    /\ prev.payload # {}
    /\ prev.exclude_closed = args.exclude_closed
    /\ \E r \in rows : r.emailed_at # NULL

\* C10: get_unemailed_listings returns, each once, the rows whose emailed_at
\* is NULL, and with exclude_closed those of them whose status is not
\* DRAWING CLOSED (the status parse_listing gives a block with "drawing
\* closed").
C10_QueryUnemailed ==
    last.op = "get_unemailed_listings" =>
        /\ Len(last.ret) = Cardinality(Range(last.ret))
        /\ Range(last.ret) =
               {r \in rows : /\ r.emailed_at = NULL
                             /\ last.exclude_closed =>
                                    r.status # ParseStatus({"drawing closed"})}

\* A query with exclude_closed returns a row and leaves out a closed
\* unemailed row.
C10_Witness ==
    /\ last.op = "get_unemailed_listings"
    /\ last.exclude_closed
    /\ last.ret # <<>>
    /\ \E r \in rows : r.emailed_at = NULL /\ r.status = CLOSED

\* C11: get_unemailed_listings returns its rows in ascending first_seen_at:
\* a row first seen earlier is never after a row first seen later, whatever
\* their last_seen_at (the earlier row may have been upserted again since).
C11_OrderedByFirstSeen ==
    last.op = "get_unemailed_listings" =>
        \A i, j \in DOMAIN last.ret :
            last.ret[i].first_seen_at < last.ret[j].first_seen_at => i < j

\* The query returns a row that was upserted again after the row that
\* follows it was first seen.
C11_Witness ==
    /\ last.op = "get_unemailed_listings"
    /\ Len(last.ret) = 2
    /\ last.ret[1].first_seen_at < last.ret[2].first_seen_at
    /\ last.ret[1].last_seen_at >= last.ret[2].first_seen_at
    /\ last.ret[1].last_seen_at > last.ret[1].first_seen_at

\* C12: mark_as_emailed with ids of which some are not in the table raises
\* nothing, changes only rows whose id is among them (and of those only
\* emailed_at), and returns the number of rows it updated.
C12_MarkReturnsCount ==
    /\ last.op = "mark_as_emailed"
    /\ \E id \in Range(last.ids) : HasRow(last.before, id)
    /\ \E id \in Range(last.ids) : ~HasRow(last.before, id)
    =>  /\ \A r \in last.before : r.id \notin Range(last.ids) => r \in rows
        /\ \A r \in last.before : r.id \in Range(last.ids) =>
               [r EXCEPT !.emailed_at = last.now] \in rows
        /\ Cardinality(rows) = Cardinality(last.before)
        /\ last.ret = <<rows_updated(last.before, last.ids)>>

\* C13: in every state of the store every row has
\* first_seen_at <= last_seen_at (the clock the store reads does not run
\* backwards).
C13_FirstSeenBeforeLastSeen ==
    \A r \in rows : r.first_seen_at <= r.last_seen_at

\* A row has been upserted again at a later time, next to a row inserted
\* since and a mark.
C13_Witness ==
    /\ \E r \in rows : r.first_seen_at < r.last_seen_at
    /\ \E r \in rows : r.first_seen_at = r.last_seen_at /\ r.emailed_at # NULL
    /\ last.op = "upsert_listing"
    /\ HasRow(last.before, last.ret)

\* C17: the table holds one row per id, and a store call leaves the ids of
\* the table as they were, but for upsert_listing of an id that had no row,
\* which adds that id: so the table holds exactly one row for each id ever
\* upserted, and no call deletes a row or changes a row's id.
C17_OneRowPerId ==
    /\ \A r, q \in rows : r.id = q.id => r = q
    /\ last.op # "none" =>
           {r.id : r \in rows} =
               {r.id : r \in last.before} \cup
                   (IF last.op = "upsert_listing" THEN {last.ret} ELSE {})

\* A listing whose row is already notified has been upserted again with
\* other content, next to a second row.
C17_Witness ==
    /\ last.op = "upsert_listing"
    /\ HasRow(last.before, last.ret)
    /\ RowOf(last.before, last.ret).title # last.listing.title
    /\ RowOf(last.before, last.ret).emailed_at # NULL
    /\ RowOf(last.before, last.ret).last_seen_at < last.now
    /\ Cardinality(rows) = 2

\* t is s without its leading and trailing whitespace.
IsTrimOf(t, s) ==
    /\ t # <<>> => t[1] # WS /\ t[Len(t)] # WS
    /\ \E i \in 0..Len(s), j \in 0..Len(s) :
           /\ i + Len(t) + j = Len(s)
           /\ \A k \in 1..Len(s) :
                  IF k <= i \/ k > i + Len(t) THEN s[k] = WS ELSE s[k] = t[k - i]

\* C14 as stated: two listings with the same non-empty url (more than
\* whitespace) get the same id whatever their title, price and location,
\* and that id is the url verbatim.
C14_UrlVerbatim ==
    /\ last.op = "generate_listing_id"
    /\ last.listings[1].url = last.listings[2].url
    /\ ~IsTrimOf(<<>>, last.listings[1].url)
    =>  /\ last.ret[1] = last.ret[2]
        /\ last.ret[1] = last.listings[1].url

\* C14, amended: two listings with the same url, non-empty once trimmed,
\* get the same id whatever their title, price and location, and that id is
\* the url without its leading and trailing whitespace.
C14_UrlTrimmed ==
    /\ last.op = "generate_listing_id"
    /\ last.listings[1].url = last.listings[2].url
    /\ ~IsTrimOf(<<>>, last.listings[1].url)
    =>  /\ last.ret[1] = last.ret[2]
        /\ IsTrimOf(last.ret[1], last.listings[1].url)

\* Two listings that share a url with surrounding whitespace and differ in
\* title, price and location have got their ids.
C14_Witness ==
    /\ last.op = "generate_listing_id"
    /\ last.listings[1].url = last.listings[2].url
    /\ last.listings[1].url # <<>>
    /\ Head(last.listings[1].url) = WS
    /\ ~IsTrimOf(<<>>, last.listings[1].url)
    /\ last.listings[1].title # last.listings[2].title
    /\ last.listings[1].price # last.listings[2].price
    /\ last.listings[1].location # last.listings[2].location

\* The listing has no url, or one of whitespace only.
NoUrl(listing) == IsTrimOf(<<>>, listing.url)

\* The fields of title, price and location in which two listings differ
\* once trimmed.
Differing(a, b) ==
    {f \in {"title", "price", "location"} : strip(a[f]) # strip(b[f])}

\* C15: two listings without url whose title, price and location are equal
\* once trimmed get the same id; when exactly one of the three differs they
\* get different ids; and a listing without url never gets the id of a
\* listing with one.
C15_FallbackId ==
    last.op = "generate_listing_id" =>
        LET a == last.listings[1]
            b == last.listings[2]
        IN  /\ NoUrl(a) /\ NoUrl(b) /\ Differing(a, b) = {} =>
                   last.ret[1] = last.ret[2]
            /\ NoUrl(a) /\ NoUrl(b) /\ Cardinality(Differing(a, b)) = 1 =>
                   last.ret[1] # last.ret[2]
            /\ NoUrl(a) /\ ~NoUrl(b) => last.ret[1] # last.ret[2]

\* Two listings without url that differ in their price only, one of them
\* with whitespace around its title, have got their ids.
C15_Witness ==
    /\ last.op = "generate_listing_id"
    /\ NoUrl(last.listings[1])
    /\ NoUrl(last.listings[2])
    /\ last.listings[1].title # last.listings[2].title
    /\ Differing(last.listings[1], last.listings[2]) = {"price"}

\* C16: the location parse_listing gives a block is the first stretch of its
\* text of the form <capitalized word(s)>, <two upper-case letters> <five
\* digits>: not empty, and holding the city, when the text has such a
\* stretch, and empty only when it has none.
C16_Location ==
    last.op = "parse_listing" =>
        last.ret.location = search_location(last.block.text)

\* The link a block's url is to come from by priority: its first link whose
\* text holds "full listing", else its first whose text holds "view
\* listing", else its first whose text holds "listing", else its first whose
\* href is not a mere fragment; 0 without any.
ClaimedLink(links) ==
    LET with(phrase) == {i \in DOMAIN links :
                            phrase \in LinkPhrases(links[i].text)
                                /\ links[i].href # ""}
        plain == {i \in DOMAIN links :
                     links[i].href # "" /\ ~IsFragment(links[i].href)}
        first(S) == CHOOSE i \in S : \A j \in S : i <= j
    IN  IF with("full listing") # {} THEN first(with("full listing"))
        ELSE IF with("view listing") # {} THEN first(with("view listing"))
        ELSE IF with("listing") # {} THEN first(with("listing"))
        ELSE IF plain # {} THEN first(plain)
        ELSE 0

\* C20: the url parse_listing gives a block is that of the link chosen by
\* priority of its text ("full listing" over "view listing" over "listing"),
\* wherever in the block the links stand; without such a link, that of the
\* first link whose href is not a mere fragment, earlier fragment-only
\* links skipped; and empty only without any such link.
C20_LinkPriority ==
    last.op = "parse_listing" =>
        LET i == ClaimedLink(last.block.links)
        IN  last.ret.url = IF i = 0 THEN <<>>
                           ELSE urljoin(BaseUrl, last.block.links[i].href)

\* C18: fetch_page makes at most max_retries requests; while it runs a next
\* request is due, so it ends after at most max_retries steps; it returns
\* the page text at the first request that succeeds; after the failed
\* attempt n (n = 0, 1, ... the loop variable) it has slept 2^n seconds
\* before the next attempt; and it raises ScraperError when the last of
\* max_retries requests has failed, without a sleep after that one.
C18_FetchPage ==
    last.op = "fetch_page" =>
        /\ last.requests <= last.max_retries
        /\ last.ret = "" => last.requests < last.max_retries
        /\ last.ret \in {"", "text", "ScraperError"}
        /\ last.ret = "text" =>
               /\ last.outcomes[last.requests]
               /\ \A i \in 1..last.requests - 1 : ~last.outcomes[i]
        /\ last.ret = "ScraperError" =>
               /\ last.requests = last.max_retries
               /\ \A i \in 1..last.max_retries : ~last.outcomes[i]
        /\ Len(last.slept) =
               IF last.ret = "" THEN last.requests ELSE last.requests - 1
        /\ \A n \in 0..Len(last.slept) - 1 :
               /\ last.slept[n + 1] = 2 ^ n
               /\ ~last.outcomes[n + 1]

\* With the default max_retries = 3 all three requests have failed.
C18_Witness ==
    /\ last.op = "fetch_page"
    /\ last.max_retries = max_retries
    /\ last.ret = "ScraperError"
    /\ last.slept = <<1, 2>>

\* C19: a run that fetched a page with blocks that parse to listings fails in
\* scrape_listings only when no heading of any level carries "Homes for
\* Sale": with the phrase in an h3 only, the section is found and the
\* listings are extracted.
C19_SectionFallback ==
    result = "ScraperError" /\ run.fetched /\ run.records =>
        run.section = "none"

====
